---- MODULE Spec2Model ----
(***************************************************************************)
(* Model of the Telegram trading bot (src/src/utils.ts, class TradingBot). *)
(*                                                                         *)
(* Strings that the code parses (message texts, the TELEGRAM_CHATS_IDS     *)
(* value, token identifiers) are sequences of one-character strings, so    *)
(* that regular-expression matching, trim, split, parseInt and parseFloat  *)
(* are computed the way the JavaScript code computes them.                 *)
(*                                                                         *)
(* JavaScript numbers and BigNumber values are records                     *)
(*     [k |-> kind, m |-> mantissa, e |-> decimal exponent]                *)
(* with k in {"undef", "nan", "inf", "fin"}; a finite value is m * 10^e    *)
(* (normalised: m carries no trailing zero, zero is m = 0, e = 0); an      *)
(* infinite value keeps its sign in m.  The sample inputs keep mantissas   *)
(* small, inside the range where a double is exact.                        *)
(***************************************************************************)
EXTENDS Integers, Sequences, FiniteSets, TLC

(***************************************************************************)
(* Characters and strings                                                  *)
(***************************************************************************)
IsSpace(c) == c \in {" ", "\t", "\n"}

IsLineTerminator(c) == c = "\n"

Digits == <<"0", "1", "2", "3", "4", "5", "6", "7", "8", "9">>

IsDigit(c) == \E i \in 1..Len(Digits) : Digits[i] = c

DigitVal(c) == (CHOOSE i \in 1..Len(Digits) : Digits[i] = c) - 1

Drop(s, n) == IF n >= Len(s) THEN <<>> ELSE SubSeq(s, n + 1, Len(s))

\* String.prototype.startsWith
StartsWith(s, p) == Len(p) <= Len(s) /\ SubSeq(s, 1, Len(p)) = p

\* String.prototype.trim
RECURSIVE TrimStart(_)
TrimStart(s) ==
    IF s # <<>> /\ IsSpace(Head(s)) THEN TrimStart(Tail(s)) ELSE s

RECURSIVE TrimEnd(_)
TrimEnd(s) ==
    IF s # <<>> /\ IsSpace(s[Len(s)]) THEN TrimEnd(SubSeq(s, 1, Len(s) - 1)) ELSE s

Trim(s) == TrimEnd(TrimStart(s))

\* String.prototype.split(/\s+/): the pieces between maximal whitespace runs;
\* the empty string splits into one empty piece.
RECURSIVE SplitFrom(_, _, _)
SplitFrom(s, cur, acc) ==
    IF s = <<>> THEN Append(acc, cur)
    ELSE IF IsSpace(Head(s))
         THEN SplitFrom(TrimStart(s), <<>>, Append(acc, cur))
         ELSE SplitFrom(Tail(s), Append(cur, Head(s)), acc)

SplitWs(s) == SplitFrom(s, <<>>, <<>>)

\* String.prototype.split(","): the pieces between commas.
RECURSIVE SplitCommaFrom(_, _, _)
SplitCommaFrom(s, cur, acc) ==
    IF s = <<>> THEN Append(acc, cur)
    ELSE IF Head(s) = ","
         THEN SplitCommaFrom(Tail(s), <<>>, Append(acc, cur))
         ELSE SplitCommaFrom(Tail(s), Append(cur, Head(s)), acc)

SplitComma(s) == SplitCommaFrom(s, <<>>, <<>>)

\* Index of the first occurrence of p in s, 0 when there is none.
FirstIndexOf(s, p) ==
    LET hits == {i \in 1..(Len(s) - Len(p) + 1) : SubSeq(s, i, i + Len(p) - 1) = p}
    IN  IF hits = {} THEN 0 ELSE CHOOSE i \in hits : \A j \in hits : i <= j

\* The longest prefix of s without a line terminator: what (.*) captures.
RECURSIVE DotStar(_)
DotStar(s) ==
    IF s = <<>> \/ IsLineTerminator(Head(s)) THEN <<>>
    ELSE <<Head(s)>> \o DotStar(Tail(s))

\* RegExp.exec for an unanchored pattern /<cmd>/: does cmd occur in the text.
RegexTest(cmd, text) == FirstIndexOf(text, cmd) # 0

\* RegExp.exec for /<cmd>(.*)/: match[1], the rest of the line after the
\* leftmost occurrence of cmd.
RegexGroup1(cmd, text) ==
    DotStar(Drop(text, FirstIndexOf(text, cmd) + Len(cmd) - 1))

(***************************************************************************)
(* Numbers                                                                 *)
(***************************************************************************)
Undefined == [k |-> "undef", m |-> 0, e |-> 0]

NaN == [k |-> "nan", m |-> 0, e |-> 0]

Infinity(sign) == [k |-> "inf", m |-> sign, e |-> 0]

RECURSIVE Pow10(_)
Pow10(n) == IF n <= 0 THEN 1 ELSE 10 * Pow10(n - 1)

RECURSIVE Normalise(_, _)
Normalise(m, e) ==
    IF m = 0 THEN [k |-> "fin", m |-> 0, e |-> 0]
    ELSE IF m % 10 = 0 THEN Normalise(m \div 10, e + 1)
    ELSE [k |-> "fin", m |-> m, e |-> e]

Fin(m, e) == Normalise(m, e)

Int2Num(n) == Fin(n, 0)

\* isNaN(x)
isNaN(x) == x.k = "nan"

\* JavaScript truthiness of an optional number: undefined, NaN and 0 are falsy.
Truthy(x) == x.k = "inf" \/ (x.k = "fin" /\ x.m # 0)

\* BigNumber.times for a finite, non-zero second factor f
Times(x, f) ==
    IF x.k = "fin" THEN Fin(x.m * f.m, x.e + f.e)
    ELSE IF x.k = "inf" THEN Infinity(IF f.m < 0 THEN 0 - x.m ELSE x.m)
    ELSE NaN

\* BigNumber.isLessThanOrEqualTo(0)
isLessThanOrEqualToZero(x) ==
    (x.k = "fin" /\ x.m <= 0) \/ (x.k = "inf" /\ x.m < 0)

\* Math.floor
MathFloor(x) ==
    IF x.k = "fin" /\ x.e < 0 THEN Fin(x.m \div Pow10(0 - x.e), 0) ELSE x

\* x is an integer greater than zero
IsPositiveInteger(x) == x.k = "fin" /\ x.m > 0 /\ x.e >= 0

\* The digits at the front of s, as [n |-> value, len |-> how many].
RECURSIVE ReadDigits(_, _, _)
ReadDigits(s, n, len) ==
    IF s # <<>> /\ IsDigit(Head(s))
    THEN ReadDigits(Tail(s), 10 * n + DigitVal(Head(s)), len + 1)
    ELSE [n |-> n, len |-> len]

SignOf(s) == IF s # <<>> /\ Head(s) = "-" THEN 0 - 1 ELSE 1

SkipSign(s) == IF s # <<>> /\ Head(s) \in {"+", "-"} THEN Tail(s) ELSE s

\* parseInt(s) with no radix, for decimal input: leading whitespace, a sign,
\* then the longest run of digits; NaN when there is no digit.
parseInt(s) ==
    LET t == TrimStart(s)
        d == ReadDigits(SkipSign(t), 0, 0)
    IN  IF d.len = 0 THEN NaN ELSE Int2Num(SignOf(t) * d.n)

InfinityWord == <<"I", "n", "f", "i", "n", "i", "t", "y">>

\* parseFloat(s): leading whitespace, a sign, then "Infinity" or the longest
\* prefix  digits [. digits] [e [sign] digits]  holding at least one digit.
parseFloat(s) ==
    LET t    == TrimStart(s)
        sg   == SignOf(t)
        u    == SkipSign(t)
        ip   == ReadDigits(u, 0, 0)
        r1   == Drop(u, ip.len)
        dot  == r1 # <<>> /\ Head(r1) = "."
        fp   == IF dot THEN ReadDigits(Tail(r1), 0, 0) ELSE [n |-> 0, len |-> 0]
        r2   == IF dot THEN Drop(r1, 1 + fp.len) ELSE r1
        hasE == r2 # <<>> /\ Head(r2) \in {"e", "E"}
        r3   == IF hasE THEN Tail(r2) ELSE <<>>
        ep   == ReadDigits(SkipSign(r3), 0, 0)
        ex   == IF hasE /\ ep.len > 0 THEN SignOf(r3) * ep.n ELSE 0
    IN  IF StartsWith(u, InfinityWord) THEN Infinity(sg)
        ELSE IF ip.len + fp.len = 0 THEN NaN
        ELSE Fin(sg * (ip.n * Pow10(fp.len) + fp.n), ex - fp.len)


NumToInt(x) == x.m * Pow10(x.e)

(***************************************************************************)
(* Bounds and sample inputs                                                *)
(***************************************************************************)
\* How many inbound chat messages a behaviour processes.
MaxMsgs == 2

S_buy     == <<"/", "b", "u", "y">>
S_sell    == <<"/", "s", "e", "l", "l">>
S_help    == <<"/", "h", "e", "l", "p">>
S_start   == <<"/", "s", "t", "a", "r", "t">>
S_address == <<"/", "a", "d", "d", "r", "e", "s", "s">>
S_chatid  == <<"/", "c", "h", "a", "t", "i", "d">>

\* "ONE-f9954f", the base token of handleBuy and handleSell
BaseToken == <<"O", "N", "E", "-", "f", "9", "9", "5", "4", "f">>

TokA == <<"A">>
TokB == <<"B">>

\* The chats that write to the bot.
ChatIds == {1, 2}

\* Values of TELEGRAM_CHATS_IDS: unset or empty, no parsable integer, one id.
ConfigSamples ==
    { <<>>,
      <<"a", "b", ",">>,
      <<" ", "1", "x", ",", "y">> }

\* Message texts.
Texts ==
    { S_help,
      S_start,
      S_address,
      S_chatid,
      S_buy,
      S_buy \o <<" ", "\n", "A">>,
      S_buy \o <<" ", "A">>,
      S_buy \o <<" ", "A", " ", "5">>,
      S_buy \o <<" ", "A", " ", "0">>,
      S_buy \o <<" ", "A", " ", "-", "5">>,
      S_buy \o <<" ", "A", " ", "x">>,
      S_buy \o <<" ", "A", " ">> \o InfinityWord,
      S_sell \o <<" ", "A">>,
      S_sell \o <<" ", "A", " ", "2">>,
      <<"h", "i", " ">> \o S_buy \o <<" ", "A">>,
      S_buy \o <<" ", "C", "\n">> \o S_sell \o <<" ", "C">> }

\* What getAllBondingMetadata may return: the entries' first_token_id and address.
MetadataSamples ==
    { <<>>,
      << [first_token_id |-> TokB, address |-> "erd1b"],
         [first_token_id |-> TokA, address |-> "erd1a"],
         [first_token_id |-> TokA, address |-> "erd1c"] >> }

\* What GET /accounts/<wallet>/tokens may return.
WalletSamples ==
    { << [identifier |-> BaseToken, balance |-> 1000, decimals |-> 18],
         [identifier |-> TokA, balance |-> 50, decimals |-> 2] >>,
      << [identifier |-> BaseToken, balance |-> 1, decimals |-> 18] >>,
      << [identifier |-> TokA, balance |-> 0, decimals |-> 0] >> }

\* The outcomes of a remote call: it throws or rejects, or it returns data.
Failure == [ok |-> FALSE, data |-> <<>>]

Returned(data) == [ok |-> TRUE, data |-> data]

QueryOutcomes == {Failure} \cup {Returned(d) : d \in MetadataSamples}

BalanceOutcomes == {Failure} \cup {Returned(d) : d \in WalletSamples}

\* wallet.callContract: a result with or without explorerUrl, or a throw
SubmitOutcomes == {Failure, Returned(<<"explorerUrl">>), Returned(<<>>)}

(***************************************************************************)
(* State                                                                   *)
(***************************************************************************)
VARIABLES
    chatIdsStr,         \* process.env.TELEGRAM_CHATS_IDS || ""
    authorizedChatIds,  \* this.authorizedChatIds
    inbox,              \* the messages processed, each with what its handlers did synchronously
    orders,             \* the handleCommand calls, each with its position and what it sent and called
    lookups             \* the /address handler runs that reached the balance fetch

vars == <<chatIdsStr, authorizedChatIds, inbox, orders, lookups>>

\* bot.sendMessage(chat, ...): the kind of text and the error message relayed in it
Msg(chat, kind, err) == [chat |-> chat, kind |-> kind, err |-> err]

NoBalance == [identifier |-> <<>>, balance |-> 0, decimals |-> 0]

NoSwap ==
    [address |-> "", tokenToSend |-> <<>>, tokenToReceive |-> <<>>,
     amountToSend |-> Undefined, minAmountToReceive |-> Undefined,
     esdtAmount |-> Undefined, gasLimit |-> 0]

\* constructor: the set of the parsable integers of the comma-separated value
ParseChatIds(str) ==
    LET pieces == SplitComma(str)
        parsed == [i \in 1..Len(pieces) |-> parseInt(Trim(pieces[i]))]
    IN  {NumToInt(parsed[i]) : i \in {j \in 1..Len(pieces) : ~isNaN(parsed[j])}}

\* isAuthorized without the fail-open branch for an empty set
isAuthorized_NoFailOpen(chatId) == chatId \in authorizedChatIds

isAuthorized(chatId) ==
    IF Cardinality(authorizedChatIds) = 0 THEN TRUE
    ELSE chatId \in authorizedChatIds


(***************************************************************************)
(* The order executor: handleCommand, handleBuy, handleSell                *)
(***************************************************************************)
\* the failure reported to the chat of the latest inbound message
HandlerCatch_LatestChat(o, err) ==
    [o EXCEPT !.sent = Append(@, Msg(inbox[Len(inbox)].chat, "failed", err)),
              !.thrown = err]

\* catch block of handleBuy / handleSell: report the failure, rethrow
HandlerCatch(o, err) ==
    [o EXCEPT !.sent = Append(@, Msg(o.chatId, "failed", err)),
              !.thrown = err]

\* catch block of handleCommand: report whatever the handler threw
HandleCommandCatch(o) ==
    IF o.thrown = "" THEN o
    ELSE [o EXCEPT !.sent = Append(@, Msg(o.chatId, "errorProcessing", o.thrown)),
                   !.thrown = "",
                   !.error = o.thrown]

\* catch blocks that swallow the error: nothing is reported to the chat
Fail_Silent(o, err) == [o EXCEPT !.pc = "done", !.error = err]

\* An order that throws err inside its handler: both catch blocks run.
Fail(o, err) == [HandleCommandCatch(HandlerCatch(o, err)) EXCEPT !.pc = "done"]

\* handleCommand up to the first await of handleBuy / handleSell: the payload
\* is built, "processing" is sent and the bonding-metadata query is issued.
handleCommand(command, msgId, chatId, token, amount) ==
    [msg |-> msgId, chatId |-> chatId, command |-> command,
     payload |-> [token |-> token, amount |-> amount],
     pc |-> "query",
     sent |-> <<Msg(chatId, "processing", "")>>,
     calls |-> <<"query">>,
     metadata |-> <<>>,
     contractAddress |-> "",
     response |-> <<>>,
     tokenBalance |-> NoBalance,
     swap |-> NoSwap,
     thrown |-> "", error |-> ""]

\* the last entry for tokenId instead of the first
FindContract_LastMatch(data, tokenId) ==
    LET hits == {i \in 1..Len(data) : data[i].first_token_id = tokenId}
    IN  IF hits = {} THEN <<>>
        ELSE <<data[CHOOSE i \in hits : \A j \in hits : i >= j]>>

\* Array.prototype.find over the metadata: the first entry for tokenId, if any
FindContract(data, tokenId) ==
    LET hits == {i \in 1..Len(data) : data[i].first_token_id = tokenId}
    IN  IF hits = {} THEN <<>>
        ELSE <<data[CHOOSE i \in hits : \A j \in hits : i <= j]>>

\* find whose predicate accepts every entry: the first balance, whatever its token
FindBalance_AnyToken(data, identifier) ==
    IF data = <<>> THEN <<>> ELSE <<data[1]>>

\* Array.prototype.find over the balances: the first entry of the token, if any
FindBalance(data, identifier) ==
    LET hits == {i \in 1..Len(data) : data[i].identifier = identifier}
    IN  IF hits = {} THEN <<>>
        ELSE <<data[CHOOSE i \in hits : \A j \in hits : i <= j]>>

TokenToSend(o) == IF o.command = "buy" THEN BaseToken ELSE o.payload.token

TokenToReceive(o) == IF o.command = "buy" THEN o.payload.token ELSE BaseToken

\* The decimals of the base token that handleBuy assumes
BuyDecimals == 18

\* amountToPay / amountToSell
ComputeAmount(o, tokenBalance) ==
    IF Truthy(o.payload.amount)
    THEN Times(o.payload.amount,
               Fin(1, IF o.command = "buy" THEN BuyDecimals ELSE tokenBalance.decimals))
    ELSE Times(Int2Num(tokenBalance.balance), Fin(98, 0 - 2))

\* the check that guards the submission
InvalidAmount(a) == isNaN(a) \/ isLessThanOrEqualToZero(a)

GasLimit == 10000000

\* the call that swapToken hands to wallet.callContract
SwapCall(o, amount) ==
    [address |-> o.contractAddress,
     tokenToSend |-> TokenToSend(o),
     tokenToReceive |-> TokenToReceive(o),
     amountToSend |-> amount,
     minAmountToReceive |-> Int2Num(1),
     esdtAmount |-> MathFloor(amount),
     gasLimit |-> GasLimit]

\* findContractAddress with one retry of a query that failed
AfterQuery_RetryOnce(o, result, walletOk) ==
    IF ~result.ok
    THEN IF Len(o.calls) < 2 THEN [o EXCEPT !.calls = Append(@, "query")]
         ELSE Fail(o, "QueryFailure")
    ELSE LET found == FindContract(result.data, o.payload.token)
             o0 == [o EXCEPT !.metadata = <<result.data>>]
         IN  IF found = <<>> THEN Fail(o0, "ContractNotFound")
             ELSE LET o1 == [o0 EXCEPT !.contractAddress = found[1].address,
                                       !.sent = Append(@, Msg(o.chatId, "contractFound", "")),
                                       !.calls = Append(@, "loadWallet")]
                  IN  IF ~walletOk THEN Fail(o1, "WalletLoadFailure")
                      ELSE [o1 EXCEPT !.calls = Append(@, "balance"),
                                      !.pc = "balance"]

\* findContractAddress returned or threw; on success "contract found" is sent,
\* the wallet is loaded and the balance fetch is issued.
AfterQuery(o, result, walletOk) ==
    IF ~result.ok THEN Fail(o, "QueryFailure")
    ELSE LET found == FindContract(result.data, o.payload.token)
             o0 == [o EXCEPT !.metadata = <<result.data>>]
         IN  IF found = <<>> THEN Fail(o0, "ContractNotFound")
             ELSE LET o1 == [o0 EXCEPT !.contractAddress = found[1].address,
                                      !.sent = Append(@, Msg(o.chatId, "contractFound", "")),
                                      !.calls = Append(@, "loadWallet")]
                  IN  IF ~walletOk THEN Fail(o1, "WalletLoadFailure")
                      ELSE [o1 EXCEPT !.calls = Append(@, "balance"),
                                      !.pc = "balance"]

\* the balance fetch returned or threw; on success the amount is computed,
\* "submitting" is sent, swapToken loads the wallet and submits the call.
AfterBalance(o, result, walletOk) ==
    IF ~result.ok THEN Fail(o, "BalanceFetchFailure")
    ELSE LET found == FindBalance(result.data, TokenToSend(o))
             o0 == [o EXCEPT !.response = <<result.data>>]
         IN  IF found = <<>> THEN Fail(o0, "NotFoundInWallet")
             ELSE LET amount == ComputeAmount(o, found[1])
                      o1 == [o0 EXCEPT !.tokenBalance = found[1]]
                  IN  IF InvalidAmount(amount) THEN Fail(o1, "InvalidAmount")
                      ELSE LET o2 == [o1 EXCEPT
                                        !.sent = Append(@, Msg(o.chatId, "submitting", "")),
                                        !.calls = Append(@, "loadWallet")]
                           IN  IF ~walletOk THEN Fail(o2, "WalletLoadFailure")
                               ELSE [o2 EXCEPT !.calls = Append(@, "submit"),
                                               !.swap = SwapCall(o, amount),
                                               !.pc = "submit"]

\* the success message sent before the outcome of the submission is known
AfterSubmit_SuccessBeforeResult(o, result) ==
    LET o1 == [o EXCEPT !.sent = Append(@, Msg(o.chatId, "success", ""))]
    IN  IF ~result.ok THEN Fail(o1, "SubmitFailure")
        ELSE [o1 EXCEPT !.pc = "done"]

\* wallet.callContract returned or threw
AfterSubmit(o, result) ==
    IF ~result.ok THEN Fail(o, "SubmitFailure")
    ELSE [o EXCEPT !.sent = Append(@, Msg(o.chatId, "success", "")),
                   !.pc = "done"]

(***************************************************************************)
(* The command router: the listeners of setupCommandHandlers               *)
(***************************************************************************)
NoEffect == [replies |-> <<>>, orders |-> <<>>, lookups |-> <<>>, calls |-> <<>>]

Reply(eff, chat, kind) == [eff EXCEPT !.replies = Append(@, Msg(chat, kind, ""))]

\* bot.on("message", ...)
Middleware(chat, text) ==
    IF ~isAuthorized(chat) /\ StartsWith(text, <<"/">>)
    THEN <<Msg(chat, "unauthorized", "")>>
    ELSE <<>>

\* bot.onText(/\/help/, ...)
OnHelp(chat, text, eff) ==
    IF ~RegexTest(S_help, text) \/ ~isAuthorized(chat) THEN eff
    ELSE Reply(eff, chat, "help")

\* bot.onText(/\/buy(.*)/, ...) and bot.onText(/\/sell(.*)/, ...)
OnTrade(command, cmd, msgId, chat, text, eff) ==
    IF ~RegexTest(cmd, text) \/ ~isAuthorized(chat) THEN eff
    ELSE LET group1 == RegexGroup1(cmd, text)
             params == SplitWs(Trim(group1))
             token == params[1]
             amountStr == IF Len(params) >= 2 THEN params[2] ELSE <<>>
             amount == IF amountStr # <<>> THEN parseFloat(amountStr) ELSE Undefined
         IN  IF group1 = <<>> THEN Reply(eff, chat, "usage")
             ELSE IF Len(params) < 1 THEN Reply(eff, chat, "usage")
             ELSE IF amount # Undefined /\ isNaN(amount)
                  THEN Reply(eff, chat, "invalidAmount")
             ELSE [eff EXCEPT !.orders =
                       Append(@, handleCommand(command, msgId, chat, token, amount))]

\* bot.onText(/\/start/, ...)
OnStart(chat, text, walletOk, eff) ==
    IF ~RegexTest(S_start, text) \/ ~isAuthorized(chat) THEN eff
    ELSE [Reply(eff, chat, IF walletOk THEN "welcome" ELSE "welcomeError")
             EXCEPT !.calls = Append(@, "loadWallet")]

\* bot.onText(/\/address/, ...) up to its await
OnAddress(msgId, chat, text, walletOk, eff) ==
    IF ~RegexTest(S_address, text) \/ ~isAuthorized(chat) THEN eff
    ELSE IF ~walletOk
         THEN [Reply(eff, chat, "addressError") EXCEPT !.calls = Append(@, "loadWallet")]
         ELSE [eff EXCEPT !.lookups =
                   Append(@, [msg |-> msgId, chatId |-> chat, pc |-> "balance",
                              sent |-> <<>>, calls |-> <<"loadWallet", "balance">>])]

\* bot.onText(/\/address/, ...) after its await: the balances or the error text
AfterAddress(l, result) ==
    [l EXCEPT !.pc = "done",
              !.sent = <<Msg(l.chatId,
                             IF result.ok THEN "addressInfo" ELSE "addressError", "")>>]

\* bot.onText(/\/chatid/, ...) of setupAdditionalCommands
OnChatId(chat, text, eff) ==
    IF ~RegexTest(S_chatid, text) THEN eff
    ELSE Reply(eff, chat, "chatid")

\* The text listeners the constructor registers, in registration order: it
\* calls setupCommandHandlers and nothing else.
textRegexpCallbacks == <<"help", "buy", "sell", "start", "address">>

Callback(name, msgId, chat, text, walletOk, eff) ==
    CASE name = "help"    -> OnHelp(chat, text, eff)
      [] name = "buy"     -> OnTrade("buy", S_buy, msgId, chat, text, eff)
      [] name = "sell"    -> OnTrade("sell", S_sell, msgId, chat, text, eff)
      [] name = "start"   -> OnStart(chat, text, walletOk, eff)
      [] name = "address" -> OnAddress(msgId, chat, text, walletOk, eff)
      [] name = "chatid"  -> OnChatId(chat, text, eff)

\* processUpdate: every registered listener whose pattern matches runs, in order.
RECURSIVE RunCallbacks(_, _, _, _, _, _)
RunCallbacks(names, msgId, chat, text, walletOk, eff) ==
    IF names = <<>> THEN eff
    ELSE RunCallbacks(Tail(names), msgId, chat, text, walletOk,
                      Callback(Head(names), msgId, chat, text, walletOk, eff))

(***************************************************************************)
(* Actions                                                                 *)
(***************************************************************************)
Init ==
    /\ chatIdsStr \in ConfigSamples
    /\ authorizedChatIds = ParseChatIds(chatIdsStr)
    /\ inbox = <<>>
    /\ orders = <<>>
    /\ lookups = <<>>

\* A text message arrives: the "message" listener, then the text listeners.
ReceiveMessage(chat, text, walletOk) ==
    /\ Len(inbox) < MaxMsgs
    /\ LET msgId == Len(inbox) + 1
           eff == RunCallbacks(textRegexpCallbacks, msgId, chat, text, walletOk, NoEffect)
       IN  /\ inbox' = Append(inbox, [chat |-> chat, text |-> text,
                                      replies |-> Middleware(chat, text) \o eff.replies,
                                      calls |-> eff.calls])
           /\ orders' = orders \o eff.orders
           /\ lookups' = lookups \o eff.lookups
    /\ UNCHANGED <<chatIdsStr, authorizedChatIds>>

\* The bonding-metadata query of order o completes.
QueryReturn(o, result, walletOk) ==
    /\ orders[o].pc = "query"
    /\ orders' = [orders EXCEPT ![o] = AfterQuery(@, result, walletOk)]
    /\ UNCHANGED <<chatIdsStr, authorizedChatIds, inbox, lookups>>

\* A per-wallet queue: the balance is read only while no other order has a
\* submission pending.
BalanceReturn_Serialized(o, result, walletOk) ==
    /\ orders[o].pc = "balance"
    /\ \A p \in DOMAIN orders : orders[p].pc # "submit"
    /\ orders' = [orders EXCEPT ![o] = AfterBalance(@, result, walletOk)]
    /\ UNCHANGED <<chatIdsStr, authorizedChatIds, inbox, lookups>>

\* The balance fetch of order o completes.
BalanceReturn(o, result, walletOk) ==
    /\ orders[o].pc = "balance"
    /\ orders' = [orders EXCEPT ![o] = AfterBalance(@, result, walletOk)]
    /\ UNCHANGED <<chatIdsStr, authorizedChatIds, inbox, lookups>>

\* A completed submission adds the order's chat to the authorized set.
SubmitReturn_LearnsChat(o, result) ==
    /\ orders[o].pc = "submit"
    /\ orders' = [orders EXCEPT ![o] = AfterSubmit(@, result)]
    /\ authorizedChatIds' = authorizedChatIds \cup {orders[o].chatId}
    /\ UNCHANGED <<chatIdsStr, inbox, lookups>>

\* The swap submission of order o completes.
SubmitReturn(o, result) ==
    /\ orders[o].pc = "submit"
    /\ orders' = [orders EXCEPT ![o] = AfterSubmit(@, result)]
    /\ UNCHANGED <<chatIdsStr, authorizedChatIds, inbox, lookups>>

\* The balance fetch of an /address request completes.
AddressReturn(l, result) ==
    /\ lookups[l].pc = "balance"
    /\ lookups' = [lookups EXCEPT ![l] = AfterAddress(@, result)]
    /\ UNCHANGED <<chatIdsStr, authorizedChatIds, inbox, orders>>

Next ==
    \/ \E chat \in ChatIds, text \in Texts, walletOk \in BOOLEAN :
           ReceiveMessage(chat, text, walletOk)
    \/ \E o \in DOMAIN orders, result \in QueryOutcomes, walletOk \in BOOLEAN :
           QueryReturn(o, result, walletOk)
    \/ \E o \in DOMAIN orders, result \in BalanceOutcomes, walletOk \in BOOLEAN :
           BalanceReturn(o, result, walletOk)
    \/ \E o \in DOMAIN orders, result \in SubmitOutcomes :
           SubmitReturn(o, result)
    \/ \E l \in DOMAIN lookups, result \in BalanceOutcomes :
           AddressReturn(l, result)

Spec == Init /\ [][Next]_vars


(***************************************************************************)
(* Vocabulary of the properties                                            *)
(***************************************************************************)
HasKind(msgs, kind) == \E i \in DOMAIN msgs : msgs[i].kind = kind

CountKinds(msgs, kinds) == Cardinality({i \in DOMAIN msgs : msgs[i].kind \in kinds})

HasCall(calls, kind) == \E i \in DOMAIN calls : calls[i] = kind

OrdersOf(msgId) == {o \in DOMAIN orders : orders[o].msg = msgId}

LookupsOf(msgId) == {l \in DOMAIN lookups : lookups[l].msg = msgId}

\* The chat is outside a non-empty authorized set.
Unauthorized(chat) == authorizedChatIds # {} /\ chat \notin authorizedChatIds

\* The text is one the /buy, /sell, /help, /start or /address listener takes.
IsGatedCommand(text) ==
    \E cmd \in {S_buy, S_sell, S_help, S_start, S_address} : RegexTest(cmd, text)

\* Nothing of the order executor or of the wallet ran for message i.
NoExecution(i) ==
    /\ OrdersOf(i) = {}
    /\ LookupsOf(i) = {}
    /\ inbox[i].calls = <<>>

\* Order o has handed a swap to wallet.callContract.
Submitted(o) == HasCall(orders[o].calls, "submit")

FailureKinds == {"failed", "errorProcessing"}

(***************************************************************************)
(* C1: when the authorized set is non-empty and the chat is not in it, a   *)
(* /buy, /sell, /help, /start or /address message is answered with the     *)
(* unauthorized message and nothing else, and no query, balance fetch,     *)
(* wallet load or submission happens for it.                               *)
(***************************************************************************)
C1_UnauthorizedRejected ==
    \A i \in DOMAIN inbox :
        (Unauthorized(inbox[i].chat) /\ IsGatedCommand(inbox[i].text))
            => /\ inbox[i].replies = <<Msg(inbox[i].chat, "unauthorized", "")>>
               /\ NoExecution(i)

(***************************************************************************)
(* C2: /chatid is answered with the chat id for every chat, authorized or  *)
(* not, and never with the unauthorized message.                           *)
(***************************************************************************)
C2_ChatIdEchoed ==
    \A i \in DOMAIN inbox :
        RegexTest(S_chatid, inbox[i].text)
            => /\ HasKind(inbox[i].replies, "chatid")
               /\ ~HasKind(inbox[i].replies, "unauthorized")

(***************************************************************************)
(* C3: if the authorized set built at startup is empty, which it is when   *)
(* the configured value is empty or holds no parsable integer, every chat  *)
(* id is authorized and no message gets the unauthorized reply.            *)
(***************************************************************************)
\* No comma-separated piece starts, after blanks and a sign, with a digit.
NoParsableInteger(str) ==
    \A i \in DOMAIN SplitComma(str) :
        LET u == SkipSign(TrimStart(SplitComma(str)[i]))
        IN  u = <<>> \/ ~IsDigit(Head(u))

C3_EmptySetAuthorizesAll ==
    /\ NoParsableInteger(chatIdsStr) => authorizedChatIds = {}
    /\ authorizedChatIds = {}
           => /\ \A chat \in ChatIds : isAuthorized(chat)
              /\ \A i \in DOMAIN inbox : ~HasKind(inbox[i].replies, "unauthorized")

\* The set is empty although a value was configured, and both chats have
\* sent a command that was served.
C3_Witness ==
    /\ authorizedChatIds = {}
    /\ chatIdsStr # <<>>
    /\ \A chat \in ChatIds :
           \E i \in DOMAIN inbox :
               /\ inbox[i].chat = chat
               /\ StartsWith(inbox[i].text, <<"/">>)
               /\ (inbox[i].replies # <<>> \/ OrdersOf(i) # {})

(***************************************************************************)
(* C4: a /buy or /sell command of an authorized chat whose argument text   *)
(* is empty, missing or blank gets the usage reply and starts no order, so *)
(* every payload that reaches handleBuy / handleSell has a non-empty       *)
(* token.                                                                  *)
(***************************************************************************)
BlankArguments(cmd, text) ==
    RegexTest(cmd, text) /\ Trim(RegexGroup1(cmd, text)) = <<>>

C4_BlankArgumentsRejected ==
    /\ \A i \in DOMAIN inbox :
           \A cmd \in {S_buy, S_sell} :
               (isAuthorized(inbox[i].chat) /\ BlankArguments(cmd, inbox[i].text))
                   => /\ HasKind(inbox[i].replies, "usage")
                      /\ OrdersOf(i) = {}
    /\ \A o \in DOMAIN orders : orders[o].payload.token # <<>>

(***************************************************************************)
(* C5: the amount of every payload dispatched to the order executor is     *)
(* absent or a finite number greater than zero.                            *)
(***************************************************************************)
C5_AmountAbsentOrPositive ==
    \A o \in DOMAIN orders :
        LET amount == orders[o].payload.amount
        IN  amount = Undefined \/ (amount.k = "fin" /\ amount.m > 0)

(***************************************************************************)
(* C6: when the command carried an amount argument and the order reaches   *)
(* submission, the submitted amount is that amount scaled by 10^18 (buy)   *)
(* or by 10^decimals of the sold token (sell), never the balance fraction. *)
(***************************************************************************)
ScaledAmount(o) ==
    Times(orders[o].payload.amount,
          Fin(1, IF orders[o].command = "buy" THEN 18
                 ELSE orders[o].tokenBalance.decimals))

C6_SuppliedAmountIsUsed ==
    \A o \in DOMAIN orders :
        (Submitted(o) /\ orders[o].payload.amount # Undefined)
            => orders[o].swap.amountToSend = ScaledAmount(o)

(***************************************************************************)
(* C7: every swap handed to the ledger attaches an integer amount greater  *)
(* than zero; a balance of 1 with no explicit amount gives floor(0.98) = 0 *)
(* and is never submitted.                                                 *)
(***************************************************************************)
C7_SubmittedAmountPositive ==
    \A o \in DOMAIN orders :
        Submitted(o) => IsPositiveInteger(orders[o].swap.esdtAmount)

(***************************************************************************)
(* C8: an order that fails sends exactly one failure message to its chat,  *)
(* and the error does not escape handleCommand.                            *)
(***************************************************************************)
C8_OneFailureMessage ==
    \A o \in DOMAIN orders :
        (orders[o].pc = "done" /\ ~HasKind(orders[o].sent, "success"))
            => /\ CountKinds(orders[o].sent, FailureKinds) = 1
               /\ orders[o].thrown = ""

(***************************************************************************)
(* C9: the status messages of an order come in the order processing,       *)
(* contract found, submitting, then a terminal message; success comes only *)
(* after submitting and after the submission returned, and an order never  *)
(* sends both a success and a failure message.                             *)
(***************************************************************************)
StatusOrder(o) ==
    LET sent == orders[o].sent
    IN  /\ Len(sent) >= 1 /\ sent[1].kind = "processing"
        /\ \A i \in DOMAIN sent :
               /\ sent[i].kind = "processing" => i = 1
               /\ sent[i].kind = "contractFound" => i = 2
               /\ sent[i].kind = "submitting"
                      => i = 3 /\ sent[2].kind = "contractFound"
               /\ sent[i].kind = "success"
                      => /\ i = 4 /\ sent[3].kind = "submitting"
                         /\ Submitted(o)
                         /\ orders[o].pc = "done"
               /\ sent[i].kind \in FailureKinds
                      => \A j \in DOMAIN sent :
                             j > i => sent[j].kind \in FailureKinds
        /\ ~(HasKind(sent, "success") /\ CountKinds(sent, FailureKinds) > 0)
        /\ orders[o].pc = "submit" => ~HasKind(sent, "success")

C9_StatusSequence == \A o \in DOMAIN orders : StatusOrder(o)

\* One order went through all four stages, another failed after "submitting".
C9_Witness ==
    /\ \E o \in DOMAIN orders :
           [i \in DOMAIN orders[o].sent |-> orders[o].sent[i].kind]
               = <<"processing", "contractFound", "submitting", "success">>
    /\ \E o \in DOMAIN orders :
           /\ HasKind(orders[o].sent, "submitting")
           /\ orders[o].error = "SubmitFailure"

(***************************************************************************)
(* C10: an order whose token has a bonding contract but whose token to     *)
(* send is absent from the fetched balances (the sold token for /sell, the *)
(* base token for /buy, with or without an explicit amount) ends with a    *)
(* "not found in wallet" failure message and submits no swap.              *)
(***************************************************************************)
AbsentFromWallet(o) ==
    /\ orders[o].contractAddress # ""
    /\ orders[o].response # <<>>
    /\ \A i \in DOMAIN orders[o].response[1] :
           orders[o].response[1][i].identifier
               # (IF orders[o].command = "sell" THEN orders[o].payload.token ELSE BaseToken)

C10_AbsentTokenFails ==
    \A o \in DOMAIN orders :
        AbsentFromWallet(o)
            => /\ orders[o].pc = "done"
               /\ \E i \in DOMAIN orders[o].sent :
                      orders[o].sent[i] = Msg(orders[o].chatId, "failed", "NotFoundInWallet")
               /\ ~HasKind(orders[o].sent, "success")
               /\ ~Submitted(o)
               /\ orders[o].swap = NoSwap

\* A sell of a token the wallet lacks, and a buy with an explicit amount
\* while the wallet lacks the base token.
C10_Witness ==
    /\ \E o \in DOMAIN orders :
           orders[o].command = "sell" /\ AbsentFromWallet(o)
    /\ \E o \in DOMAIN orders :
           /\ orders[o].command = "buy" /\ AbsentFromWallet(o)
           /\ Truthy(orders[o].payload.amount)

(***************************************************************************)
(* C11: within one order the remote calls happen at most once each, in the *)
(* order metadata query, balance fetch, swap submission; a failed call     *)
(* aborts the order and no call follows it; a swap is submitted only after *)
(* a contract was resolved and a balance entry was found.                  *)
(***************************************************************************)
IsRemoteCall(c) == c \in {"query", "balance", "submit"}

RemoteCalls(o) == SelectSeq(orders[o].calls, IsRemoteCall)

C11_CallsOnceInOrder ==
    \A o \in DOMAIN orders :
        LET rc == RemoteCalls(o)
            err == orders[o].error
        IN  /\ rc \in { <<"query">>,
                        <<"query", "balance">>,
                        <<"query", "balance", "submit">> }
            /\ err # "" => orders[o].pc = "done"
            /\ err \in {"QueryFailure", "ContractNotFound"} => rc = <<"query">>
            /\ err \in {"BalanceFetchFailure", "NotFoundInWallet", "InvalidAmount"}
                   => rc = <<"query", "balance">>
            /\ err = "WalletLoadFailure" => Len(rc) < 3
            /\ Len(rc) = 3
                   => /\ orders[o].contractAddress # ""
                      /\ orders[o].metadata # <<>>
                      /\ \E i \in DOMAIN orders[o].metadata[1] :
                             /\ orders[o].metadata[1][i].first_token_id = orders[o].payload.token
                             /\ orders[o].metadata[1][i].address = orders[o].contractAddress
                      /\ orders[o].response # <<>>
                      /\ \E i \in DOMAIN orders[o].response[1] :
                             orders[o].response[1][i] = orders[o].tokenBalance
                      /\ orders[o].swap.address = orders[o].contractAddress

\* One order made all three calls and its submission failed; another was
\* aborted by a failed balance fetch.
C11_Witness ==
    /\ \E o \in DOMAIN orders :
           /\ RemoteCalls(o) = <<"query", "balance", "submit">>
           /\ orders[o].error = "SubmitFailure"
    /\ \E o \in DOMAIN orders : orders[o].error = "BalanceFetchFailure"

(***************************************************************************)
(* C12: every order dispatched to the order executor is processed to       *)
(* completion: if each remote call of an order eventually returns or       *)
(* fails, the order eventually sends a terminal message (success or        *)
(* failure) to its chat and is finished.                                   *)
(***************************************************************************)
\* The orders a behaviour can hold: a message starts at most two.
OrderIds == 1..(2 * MaxMsgs)

\* The pending remote call of order o returns or fails.
OrderStep(o) ==
    /\ o \in DOMAIN orders
    /\ \/ \E result \in QueryOutcomes, walletOk \in BOOLEAN : QueryReturn(o, result, walletOk)
       \/ \E result \in BalanceOutcomes, walletOk \in BOOLEAN : BalanceReturn(o, result, walletOk)
       \/ \E result \in SubmitOutcomes : SubmitReturn(o, result)

\* The bot started with no TELEGRAM_CHATS_IDS: every chat may start orders.
FairInit == Init /\ chatIdsStr = <<>>

\* Every remote call that is pending eventually completes.
FairSpec == FairInit /\ [][Next]_vars /\ \A o \in OrderIds : WF_vars(OrderStep(o))

Finished(o) ==
    /\ o \in DOMAIN orders
    /\ orders[o].pc = "done"
    /\ \E i \in DOMAIN orders[o].sent :
           /\ orders[o].sent[i].kind \in {"success"} \cup FailureKinds
           /\ orders[o].sent[i].chat = orders[o].chatId

C12_OrdersComplete ==
    \A o \in OrderIds : (o \in DOMAIN orders) ~> Finished(o)

\* Two orders are finished, one with the success message, one with a
\* failure message.
C12_Witness ==
    /\ Len(orders) >= 2
    /\ \A o \in DOMAIN orders : Finished(o)
    /\ \E o \in DOMAIN orders : HasKind(orders[o].sent, "success")
    /\ \E o \in DOMAIN orders : HasKind(orders[o].sent, "failed")

(***************************************************************************)
(* C13: orders are not serialized: while one order is suspended at a       *)
(* remote call another order can start and advance, so two default-amount  *)
(* orders can both read the same wallet balance before either submission   *)
(* has completed, and both then submit 98% of that same balance.           *)
(***************************************************************************)
\* Order o left the amount out and attached 98% of the balance it read.
DefaultAmountPending(o) ==
    /\ orders[o].payload.amount = Undefined
    /\ orders[o].pc = "submit"
    /\ orders[o].tokenBalance.balance > 0
    /\ orders[o].swap.amountToSend
           = Fin(orders[o].tokenBalance.balance * 98, 0 - 2)

\* No order waits for another: the pending call of every unfinished order
\* can complete whatever the other orders are doing, and a default amount is
\* 98% of the balance the order itself read, whatever else is in flight.
C13_NotSerialized ==
    \A o \in DOMAIN orders :
        /\ orders[o].pc # "done" => ENABLED OrderStep(o)
        /\ (Submitted(o) /\ orders[o].payload.amount = Undefined)
               => orders[o].swap.amountToSend
                      = Fin(orders[o].tokenBalance.balance * 98, 0 - 2)

\* Two default-amount orders for the same token both read the same balance
\* and both have a swap of 98% of it pending.
C13_Witness ==
    \E o1, o2 \in DOMAIN orders :
        /\ o1 # o2
        /\ DefaultAmountPending(o1)
        /\ DefaultAmountPending(o2)
        /\ orders[o1].command = orders[o2].command
        /\ orders[o1].tokenBalance = orders[o2].tokenBalance
        /\ orders[o1].swap.esdtAmount = orders[o2].swap.esdtAmount

(***************************************************************************)
(* C14: the contract of an order is the address of the first metadata      *)
(* entry whose first token id is the requested token; when no entry        *)
(* matches, or the list is empty, the order fails with contract-not-found, *)
(* "contract found" is not sent, and no balance fetch or submission        *)
(* follows.                                                                *)
(***************************************************************************)
\* The positions in the metadata order o received that carry its token.
MatchingEntries(o) ==
    {i \in DOMAIN orders[o].metadata[1] :
        orders[o].metadata[1][i].first_token_id = orders[o].payload.token}

C14_FirstMatchOrNotFound ==
    \A o \in DOMAIN orders :
        /\ orders[o].contractAddress # "" => orders[o].metadata # <<>>
        /\ orders[o].metadata # <<>> =>
             IF MatchingEntries(o) = {}
             THEN /\ orders[o].pc = "done"
                  /\ orders[o].error = "ContractNotFound"
                  /\ orders[o].contractAddress = ""
                  /\ ~HasKind(orders[o].sent, "contractFound")
                  /\ \E k \in FailureKinds : HasKind(orders[o].sent, k)
                  /\ RemoteCalls(o) = <<"query">>
             ELSE \E i \in MatchingEntries(o) :
                  /\ \A j \in MatchingEntries(o) : i <= j
                  /\ orders[o].contractAddress = orders[o].metadata[1][i].address
                  /\ HasKind(orders[o].sent, "contractFound")

\* One order resolved its token from a list that holds it twice, another
\* received a list without its token, and another received an empty list.
C14_Witness ==
    /\ \E o \in DOMAIN orders :
          /\ orders[o].contractAddress # ""
          /\ Cardinality(MatchingEntries(o)) = 2
    /\ \E o \in DOMAIN orders :
          /\ orders[o].metadata # <<>>
          /\ orders[o].metadata[1] # <<>>
          /\ MatchingEntries(o) = {}
          /\ orders[o].error = "ContractNotFound"
    /\ \E o \in DOMAIN orders :
          /\ orders[o].metadata = << <<>> >>
          /\ orders[o].error = "ContractNotFound"

(***************************************************************************)
(* C15: the authorized chat set is the one the constructor parsed and no   *)
(* step changes it, so the authorization decision for a chat id is the     *)
(* same for every message, whatever commands ran or failed in between.     *)
(***************************************************************************)
\* Message i was turned away by the middleware.
TurnedAway(i) == HasKind(inbox[i].replies, "unauthorized")

C15_AuthorizationFixed ==
    /\ [](/\ authorizedChatIds = ParseChatIds(chatIdsStr)
          /\ \A i \in DOMAIN inbox :
                StartsWith(inbox[i].text, <<"/">>)
                    => (TurnedAway(i) <=> Unauthorized(inbox[i].chat)))
    /\ [][/\ authorizedChatIds' = authorizedChatIds
          /\ \A c \in ChatIds : isAuthorized(c)' = isAuthorized(c)]_vars

\* With a non-empty authorized set, an authorized chat sent two commands;
\* the first one's order was submitted and failed, and the second was
\* accepted as well.
C15_Witness ==
    /\ authorizedChatIds # {}
    /\ Len(inbox) = 2
    /\ inbox[1].chat = inbox[2].chat
    /\ \E o \in OrdersOf(1) : Submitted(o) /\ orders[o].error = "SubmitFailure"
    /\ OrdersOf(2) # {}

(***************************************************************************)
(* C16: every status, success and failure message of an order goes to the  *)
(* chat that issued the order's command, also when orders of several chats *)
(* are in flight and interleaved.                                          *)
(***************************************************************************)
C16_MessagesToIssuingChat ==
    /\ \A o \in DOMAIN orders :
          /\ orders[o].msg \in DOMAIN inbox
          /\ \A i \in DOMAIN orders[o].sent :
                orders[o].sent[i].chat = inbox[orders[o].msg].chat
    /\ \A l \in DOMAIN lookups :
          \A i \in DOMAIN lookups[l].sent :
                lookups[l].sent[i].chat = inbox[lookups[l].msg].chat
    /\ \A m \in DOMAIN inbox :
          \A i \in DOMAIN inbox[m].replies :
                inbox[m].replies[i].chat = inbox[m].chat

\* The order of the first message failed at submission and has its failure
\* messages; the order of the second message, from another chat, has sent
\* its three status messages and is waiting for its submission.
C16_Witness ==
    \E o1, o2 \in DOMAIN orders :
        /\ orders[o1].msg = 1
        /\ orders[o2].msg = 2
        /\ inbox[1].chat # inbox[2].chat
        /\ orders[o1].error = "SubmitFailure"
        /\ \E k \in FailureKinds : HasKind(orders[o1].sent, k)
        /\ orders[o2].pc = "submit"
        /\ Len(orders[o2].sent) = 3

(***************************************************************************)
(* C17: one inbound chat message starts at most one order: no message      *)
(* text, not even one that holds both "/buy" and "/sell", has both         *)
(* handleBuy and handleSell dispatched for it.                             *)
(***************************************************************************)
C17_OneOrderPerMessage ==
    \A i \in DOMAIN inbox :
        /\ Cardinality(OrdersOf(i)) <= 1
        /\ \A o1, o2 \in OrdersOf(i) : orders[o1].command = orders[o2].command

====
